---- MODULE Spec2Model ----
(***************************************************************************)
(* KangarooTwelve (k12/src/lib.rs): the accumulator API, the tree          *)
(* orchestration of result(), the sponge function f(), the lane load/store *)
(* wrapper keccak() and right_encode().                                    *)
(*                                                                         *)
(* Byte vectors (Vec<u8>, &[u8]) are sequences of 0..255, index k of the   *)
(* source being index k+1 here; the fixed array state: [u8; 200] is a      *)
(* function on 0..199, indexed as in the source.                           *)
(***************************************************************************)
EXTENDS Integers, Sequences, FiniteSets, TLC

\* ------------------------------------------------------------------ bounds
MaxCalls == 2        \* input/chain calls made on one accumulator
MaxOutBlocks == 2    \* requested output lengths reach MaxOutBlocks rate blocks (+1 byte)
MaxInBlocks == 2     \* inputs of f on its own reach MaxInBlocks rate blocks (+1 byte)
MaxSmallX == 40      \* right_encode is run on every x in 0..MaxSmallX and on EdgeX

\* ------------------------------------------------------- program constants
b == 8192                  \* lib.rs:53  chunk size in bytes
c == 256                   \* lib.rs:54  chaining value size in bits
max_block_size == 1344 \div 8   \* lib.rs:96  r, the rate in bytes
StateLen == 200            \* lib.rs:95  [0u8; 200]

min(x, y) == IF x < y THEN x ELSE y

\* ------------------------------------------------------------ byte algebra
RECURSIVE XorBits(_, _, _)
XorBits(x, y, k) ==
  IF k = 0 THEN 0
  ELSE (((x % 2) + (y % 2)) % 2) + 2 * XorBits(x \div 2, y \div 2, k - 1)

\* XOR of two 4-bit values, tabulated: XorNibbles[x + 1][y + 1]
XorNibbles == [x \in 1..16 |-> [y \in 1..16 |-> XorBits(x - 1, y - 1, 4)] \o <<>>] \o <<>>

\* u8 ^ u8
BitXor(x, y) ==
  16 * XorNibbles[(x \div 16) + 1][(y \div 16) + 1] + XorNibbles[(x % 16) + 1][(y % 16) + 1]

\* (suffix & 0x80) != 0
HighBit(x) == ((x \div 128) % 2) = 1

\* ------------------------------------------------- keccak(): lanes wrapper
(* A u64 is held as four 16-bit limbs, least significant first (the model  *)
(* checker's integers are 32 bits wide).  read_u64 reads the eight bytes   *)
(* through a *const u64 and applies to_le(): on either endianness the      *)
(* value is the little-endian reading of the bytes.                        *)
read_u64(bytes) ==
  <<bytes[1] + 256 * bytes[2], bytes[3] + 256 * bytes[4],
    bytes[5] + 256 * bytes[6], bytes[7] + 256 * bytes[8]>>

write_u64(val) ==
  <<val[1] % 256, val[1] \div 256, val[2] % 256, val[2] \div 256,
    val[3] % 256, val[3] \div 256, val[4] % 256, val[4] \div 256>>

(* lanes::keccak (mod lanes) is modelled by its contract, specification    *)
(* 4.3: a public, deterministic permutation of the 25-lane state.  This    *)
(* stand-in is such a permutation, not Keccak-p[1600,12]: two Feistel      *)
(* rounds over the 100 limbs, (L, R) -> (R, L + F(R)), limb by limb        *)
(* modulo 2^16, with F mixing three limbs of R and a round constant.       *)
FeistelF(limbs, k, rc) ==
  (31 * limbs[51 + k] + 17 * limbs[51 + ((k + 7) % 50)] + limbs[51 + ((k + 13) % 50)]
     + 40503 * (k + 1) + rc) % 65536

FeistelRound(limbs, rc) ==
  [k \in 1..100 |-> IF k <= 50 THEN limbs[k + 50]
                    ELSE (limbs[k - 50] + FeistelF(limbs, k - 51, rc)) % 65536] \o <<>>

lanes_keccak(lanes) ==
  LET limbs == [k \in 1..100 |-> lanes[(k - 1) \div 4][((k - 1) % 4) + 1]] \o <<>>
      mixed == FeistelRound(FeistelRound(limbs, 1), 32778)
  IN  [l \in 0..24 |-> SubSeq(mixed, 4 * l + 1, 4 * l + 4)]

\* lib.rs:153-168  load the 25 lanes, permute, store them back
keccak(state) ==
  LET lanes == [l \in 0..24 |-> read_u64([k \in 1..8 |-> state[8 * l + k - 1]])]
      perm  == lanes_keccak(lanes)
      outb  == [i \in 1..25 |-> write_u64(perm[i - 1])] \o <<>>
  IN  [i \in 0..(StateLen - 1) |-> outb[(i \div 8) + 1][(i % 8) + 1]]

\* ------------------------------------------------------------ right_encode
Reverse(s) == [k \in 1..Len(s) |-> s[Len(s) + 1 - k]]

\* lib.rs:170-171  the locals of right_encode on entry, with the argument it was called with
enc_enter(x) == [arg |-> x, x |-> x, slice |-> <<>>]

\* lib.rs:172-175  one iteration of `while x > 0`
enc_step(e) == [e EXCEPT !.x = e.x \div 256, !.slice = Append(e.slice, e.x % 256)]

\* The same without the reversal: the bytes stay least significant first.
enc_finish_unreversed(e) == Append(e.slice, Len(e.slice) % 256)

\* lib.rs:176-179  reverse, push the length, return
enc_finish(e) == Append(Reverse(e.slice), Len(e.slice) % 256)

RECURSIVE enc_run(_)
enc_run(e) == IF e.x > 0 THEN enc_run(enc_step(e)) ELSE enc_finish(e)

right_encode(x) == enc_run(enc_enter(x))

\* ---------------------------------------------------------------- f()
(* The locals of one call of f, with the output_len it was called with,    *)
(* the permutations it has applied counted by phase and the offset at      *)
(* which the suffix was XORed.                                             *)
f_enter(input, suffix, output_len) ==
  LET block_size == min(Len(input), max_block_size)
  IN  [input |-> input, suffix |-> suffix, output_len |-> output_len,
       requested |-> output_len,
       state |-> [k \in 0..(StateLen - 1) |-> IF k < block_size THEN input[k + 1] ELSE 0],
       block_size |-> block_size, offset |-> block_size, output |-> <<>>,
       absorb_perms |-> 0, pad_perms |-> 0, squeeze_perms |-> 0, pad_at |-> -1]

\* lib.rs:105-111  one iteration of `while offset < input.len()`
f_absorb(fr) ==
  LET st == keccak(fr.state)
      block_size == min(Len(fr.input) - fr.offset, max_block_size)
  IN  [fr EXCEPT
         !.state = [k \in 0..(StateLen - 1) |->
                      IF k < block_size THEN BitXor(st[k], fr.input[k + fr.offset + 1])
                      ELSE st[k]],
         !.block_size = block_size,
         !.offset = fr.offset + block_size,
         !.absorb_perms = @ + 1]

\* The absorbing phase without its closing permutation of a full last block.
f_absorb_end_skipped(fr) == fr

\* lib.rs:113-118  after the loop: a full last block is permuted away
f_absorb_end(fr) ==
  IF fr.block_size = max_block_size
  THEN [fr EXCEPT !.state = keccak(fr.state), !.block_size = 0, !.absorb_perms = @ + 1]
  ELSE fr

\* The padding without its extra permutation.
pad_extra_never(suffix, block_size) == FALSE

\* lib.rs:122  the condition of the extra permutation of the padding
pad_extra(suffix, block_size) == HighBit(suffix) /\ block_size = max_block_size - 1

\* lib.rs:121-128  padding and the switch to squeezing
f_pad(fr) ==
  LET s1 == [fr.state EXCEPT ![fr.block_size] = BitXor(@, fr.suffix)]
      extra == pad_extra(fr.suffix, fr.block_size)
      s2 == IF extra THEN keccak(s1) ELSE s1
      s3 == [s2 EXCEPT ![max_block_size - 1] = BitXor(@, 128)]
  IN  [fr EXCEPT !.state = keccak(s3),
                 !.pad_perms = IF extra THEN 2 ELSE 1,
                 !.pad_at = fr.block_size]

\* A squeeze that permutes after every emission, the last one included.
f_squeeze_always_permutes(fr) ==
  LET block_size == min(fr.output_len, max_block_size)
      left == fr.output_len - block_size
  IN  [fr EXCEPT
         !.block_size = block_size,
         !.output = fr.output \o [k \in 1..block_size |-> fr.state[k - 1]],
         !.output_len = left,
         !.state = keccak(fr.state),
         !.squeeze_perms = @ + 1]

\* A squeeze that emits whole rate blocks, whatever is left to produce.
f_squeeze_whole_blocks(fr) ==
  LET block_size == min(fr.output_len, max_block_size)
      left == fr.output_len - block_size
  IN  [fr EXCEPT
         !.block_size = max_block_size,
         !.output = fr.output \o [k \in 1..max_block_size |-> fr.state[k - 1]],
         !.output_len = left,
         !.state = IF left > 0 THEN keccak(fr.state) ELSE fr.state,
         !.squeeze_perms = IF left > 0 THEN @ + 1 ELSE @]

\* A squeeze that takes a partial block from the end of the rate, not its front.
f_squeeze_from_end(fr) ==
  LET block_size == min(fr.output_len, max_block_size)
      left == fr.output_len - block_size
  IN  [fr EXCEPT
         !.block_size = block_size,
         !.output = fr.output \o
                      [k \in 1..block_size |-> fr.state[max_block_size - block_size + k - 1]],
         !.output_len = left,
         !.state = IF left > 0 THEN keccak(fr.state) ELSE fr.state,
         !.squeeze_perms = IF left > 0 THEN @ + 1 ELSE @]

\* lib.rs:133-138  one iteration of `while output_len > 0`
f_squeeze(fr) ==
  LET block_size == min(fr.output_len, max_block_size)
      left == fr.output_len - block_size
  IN  [fr EXCEPT
         !.block_size = block_size,
         !.output = fr.output \o [k \in 1..block_size |-> fr.state[k - 1]],
         !.output_len = left,
         !.state = IF left > 0 THEN keccak(fr.state) ELSE fr.state,
         !.squeeze_perms = IF left > 0 THEN @ + 1 ELSE @]

\* lib.rs:104-112  the loop `while offset < input.len()`, run to its exit
RECURSIVE f_absorb_loop(_)
f_absorb_loop(fr) ==
  IF fr.offset < Len(fr.input) THEN f_absorb_loop(f_absorb(fr)) ELSE fr

f_absorb_all(fr) == f_absorb_end(f_absorb_loop(fr))

\* lib.rs:132-139  the loop `while output_len > 0`, run to its exit
RECURSIVE f_squeeze_all(_)
f_squeeze_all(fr) == IF fr.output_len > 0 THEN f_squeeze_all(f_squeeze(fr)) ELSE fr

\* lib.rs:94-141  the call as a whole: its locals when it returns
f_frame(input, suffix, output_len) ==
  f_squeeze_all(f_pad(f_absorb_all(f_enter(input, suffix, output_len))))

f(input, suffix, output_len) == f_frame(input, suffix, output_len).output

\* ------------------------------------------------------------------ inputs
\* Test data in the style of the crate's tests: byte j is a pattern mod 251.
Pattern(len, seed) == [j \in 1..len |-> ((j - 1) * seed + seed) % 251]

\* Arguments of input/chain: empty, one byte, one byte short of a chunk.
Pieces == { <<>>, <<255>>, Pattern(b - 1, 3) }

\* Customizations: empty (encoded length 0x00) and one that, with its two
\* length bytes, is two bytes short of the rate.
Customizations == { <<>>, Pattern(max_block_size - 4, 5) }

\* Requested output lengths at the API.
ApiOutLens == { 0, c \div 8, max_block_size * MaxOutBlocks + 1 }

\* Arguments of f when it is exercised on its own.
FInputLens ==
  {0, 1} \cup { max_block_size * k + d : k \in 1..MaxInBlocks, d \in {-2, -1, 0, 1} }
FSuffixes == { 7, 11, 6, 128, 134, 255 }
FOutLens ==
  {0, 1, c \div 8} \cup { max_block_size * k + d : k \in 1..MaxOutBlocks, d \in {0, 1} }

\* Arguments of right_encode when it is exercised on its own.
EdgeX == { 255, 256, 257, 65535, 65536, 65537, 16777215, 16777216, 16777217, 2147483647 }
EncInputs == (0..MaxSmallX) \cup EdgeX

\* ------------------------------------------------------------------- state
VARIABLES
  acc,        \* the accumulator as its owner sees it: "Accumulating" | "Finalized"
  buffer,     \* KangarooTwelve.buffer
  appended,   \* the calls made on the live accumulator: <<"input" | "chain", bytes>>
  pc,         \* position in result(), or the unit being exercised
  r,          \* the locals of result()
  ret,        \* the value result() returned
  calls,      \* the calls of f made by result(): <<suffix, input length, output_len>>
  fpc,        \* position in f()
  frame,      \* the locals of the running call of f()
  enc,        \* the locals of the running call of right_encode()
  enc_out     \* the value right_encode() returned

accVars == <<acc, buffer, appended>>
resVars == <<pc, r, ret, calls>>
fVars   == <<fpc, frame>>
encVars == <<enc, enc_out>>
vars    == <<acc, buffer, appended, pc, r, ret, calls, fpc, frame, enc, enc_out>>

NoLocals ==
  [customization |-> <<>>, output_len |-> 0, slice |-> <<>>, n |-> 0, slices |-> <<>>,
   intermediate |-> <<>>, i |-> 0, node_star |-> <<>>]
NoFrame == f_enter(<<>>, 0, 0)
NoEnc   == enc_enter(0)

\* lib.rs:36-38  KangarooTwelve::new(): Default gives an empty buffer
Init ==
  /\ acc = "Accumulating" /\ buffer = <<>> /\ appended = <<>>
  /\ pc = "idle" /\ r = NoLocals /\ ret = <<>> /\ calls = <<>>
  /\ fpc = "none" /\ frame = NoFrame
  /\ enc = NoEnc /\ enc_out = <<>>

\* ------------------------------------------------------------- accumulator
\* An input that replaces what was buffered instead of extending it.
InputOverwrites ==
  /\ acc = "Accumulating" /\ pc = "idle" /\ Len(appended) < MaxCalls
  /\ \E bytes \in Pieces :
       /\ buffer' = bytes
       /\ appended' = Append(appended, <<"input", bytes>>)
  /\ UNCHANGED <<acc, resVars, fVars, encVars>>

\* lib.rs:41-43  input(&mut self, bytes)
Input ==
  /\ acc = "Accumulating" /\ pc = "idle" /\ Len(appended) < MaxCalls
  /\ \E bytes \in Pieces :
       /\ buffer' = buffer \o bytes
       /\ appended' = Append(appended, <<"input", bytes>>)
  /\ UNCHANGED <<acc, resVars, fVars, encVars>>

\* lib.rs:46-49  chain(mut self, bytes) -> Self: input, then the accumulator is handed back
Chain ==
  /\ acc = "Accumulating" /\ pc = "idle" /\ Len(appended) < MaxCalls
  /\ \E bytes \in Pieces :
       /\ buffer' = buffer \o bytes
       /\ appended' = Append(appended, <<"chain", bytes>>)
  /\ UNCHANGED <<acc, resVars, fVars, encVars>>

\* ---------------------------------------------------------------- result()
\* A chunk count that is one too many on a multiple of b.
NumChunksOffByOne(len) == len \div b + 1

\* lib.rs:62  n = (slice.len() + b - 1) / b
NumChunks(len) == (len + b - 1) \div b

\* lib.rs:64-67  the chunk ranges i*b..ub, as the borrowed sub-slices they are
ChunkRanges(len, n) == [k \in 1..n |-> <<(k - 1) * b, min(k * b, len)>>]

\* slices[k] of the source (k from 0): the bytes of that range of slice
Chunk(loc, k) == SubSeq(loc.slice, loc.slices[k + 1][1] + 1, loc.slices[k + 1][2])

RECURSIVE Flatten(_)
Flatten(ss) == IF ss = <<>> THEN <<>> ELSE Head(ss) \o Flatten(Tail(ss))

\* A final node that takes the chaining values last-computed first.
FinalNodeReversed(loc) ==
  Chunk(loc, 0) \o <<3, 0, 0, 0, 0, 0, 0, 0>> \o Flatten(Reverse(loc.intermediate))
    \o right_encode(loc.n - 1) \o <<255, 255>>

\* lib.rs:80-87  node_star
FinalNode(loc) ==
  Chunk(loc, 0) \o <<3, 0, 0, 0, 0, 0, 0, 0>> \o Flatten(loc.intermediate)
    \o right_encode(loc.n - 1) \o <<255, 255>>

\* A call of f from result(): lib.rs:95-103 run on entry
CallF(input, suffix, output_len) ==
  /\ frame' = f_enter(input, suffix, output_len)
  /\ fpc' = "absorb"
  /\ calls' = Append(calls, <<suffix, Len(input), output_len>>)

\* lib.rs:56-67  S, n and the chunk ranges
ResultLocals(buf, customization, output_len) ==
  LET slice == buf \o customization \o right_encode(Len(customization))
      n == NumChunks(Len(slice))
  IN  [customization |-> customization, output_len |-> output_len,
       slice |-> slice, n |-> n, slices |-> ChunkRanges(Len(slice), n),
       intermediate |-> <<>>, i |-> 0, node_star |-> <<>>]

\* lib.rs:52-91  result() as a whole: the value it returns
result(buf, customization, output_len) ==
  LET loc == ResultLocals(buf, customization, output_len)
  IN  IF loc.n = 1
      THEN f(Chunk(loc, 0), 7, output_len)
      ELSE LET cvs == [k \in 1..(loc.n - 1) |-> f(Chunk(loc, k), 11, c \div 8)]
           IN  f(FinalNode([loc EXCEPT !.intermediate = cvs]), 6, output_len)

\* A result() that borrows the accumulator and leaves it usable.
ResultBorrows ==
  /\ acc = "Accumulating" /\ pc = "idle"
  /\ \E customization \in Customizations, output_len \in ApiOutLens :
       LET loc == ResultLocals(buffer, customization, output_len)
       IN  /\ r' = loc
           /\ IF loc.n = 1
              THEN /\ pc' = "seq"
                   /\ CallF(Chunk(loc, 0), 7, output_len)
              ELSE /\ pc' = "leaves"
                   /\ UNCHANGED <<fVars, calls>>
  /\ UNCHANGED <<acc, appended, buffer, ret, encVars>>

\* lib.rs:52-71,75  result(self, customization, output_len) up to its first call of f
Result ==
  /\ acc = "Accumulating" /\ pc = "idle"
  /\ \E customization \in Customizations, output_len \in ApiOutLens :
       LET loc == ResultLocals(buffer, customization, output_len)
       IN  /\ r' = loc
           /\ IF loc.n = 1
              THEN /\ pc' = "seq"
                   /\ CallF(Chunk(loc, 0), 7, output_len)
              ELSE /\ pc' = "leaves"
                   /\ UNCHANGED <<fVars, calls>>
  /\ acc' = "Finalized"
  /\ appended' = <<>>
  /\ UNCHANGED <<buffer, ret, encVars>>

\* lib.rs:76-77  for i in 0..n-1: call f(slices[i + 1], 0x0B, c / 8)
LeafCall ==
  /\ pc = "leaves" /\ r.i < r.n - 1
  /\ CallF(Chunk(r, r.i + 1), 11, c \div 8)
  /\ pc' = "leaf"
  /\ UNCHANGED <<accVars, r, ret, encVars>>

\* lib.rs:77  intermediate.push(<the value f returned>)
LeafReturn ==
  /\ pc = "leaf" /\ fpc = "ret"
  /\ r' = [r EXCEPT !.intermediate = Append(@, frame.output), !.i = @ + 1]
  /\ pc' = "leaves"
  /\ fpc' = "none" /\ frame' = NoFrame
  /\ UNCHANGED <<accVars, ret, calls, encVars>>

\* lib.rs:80-89  build node_star and call f(&node_star[..], 0x06, output_len)
BuildFinal ==
  /\ pc = "leaves" /\ r.i = r.n - 1
  /\ LET node_star == FinalNode(r)
     IN  /\ r' = [r EXCEPT !.node_star = node_star]
         /\ CallF(node_star, 6, r.output_len)
  /\ pc' = "final"
  /\ UNCHANGED <<accVars, ret, encVars>>

\* lib.rs:71, 89-91  result() returns what its last call of f returned
ResultReturn ==
  /\ pc \in {"seq", "final"} /\ fpc = "ret"
  /\ ret' = frame.output
  /\ pc' = "done"
  /\ fpc' = "none" /\ frame' = NoFrame
  /\ UNCHANGED <<accVars, r, calls, encVars>>

\* ------------------------------------------------------------ f(), by step
\* lib.rs:104-112  one iteration of the absorbing loop
FAbsorb ==
  /\ fpc = "absorb" /\ frame.offset < Len(frame.input)
  /\ frame' = f_absorb(frame)
  /\ UNCHANGED <<accVars, resVars, fpc, encVars>>

\* The same loop taken in one step from its entry to its exit.
FAbsorbLoop ==
  /\ fpc = "absorb" /\ frame.offset < Len(frame.input) /\ frame.absorb_perms = 0
  /\ frame' = f_absorb_loop(frame)
  /\ UNCHANGED <<accVars, resVars, fpc, encVars>>

\* lib.rs:113-118
FAbsorbEnd ==
  /\ fpc = "absorb" /\ ~(frame.offset < Len(frame.input))
  /\ frame' = f_absorb_end(frame)
  /\ fpc' = "pad"
  /\ UNCHANGED <<accVars, resVars, encVars>>

\* lib.rs:121-128
FPad ==
  /\ fpc = "pad"
  /\ frame' = f_pad(frame)
  /\ fpc' = "squeeze"
  /\ UNCHANGED <<accVars, resVars, encVars>>

\* lib.rs:132-139  one iteration of the squeezing loop
FSqueeze ==
  /\ fpc = "squeeze" /\ frame.output_len > 0
  /\ frame' = f_squeeze(frame)
  /\ UNCHANGED <<accVars, resVars, fpc, encVars>>

\* lib.rs:140  the loop is over: output is returned
FReturn ==
  /\ fpc = "squeeze" /\ ~(frame.output_len > 0)
  /\ fpc' = "ret"
  /\ UNCHANGED <<accVars, resVars, frame, encVars>>

(* lib.rs:143-146, 158  read_u64 dereferences a *const u64 made from a     *)
(* pointer into state: [u8; 200], whose alignment is 1.  When the array is *)
(* not 8-byte aligned the read is undefined: a build performs the load     *)
(* (the steps above) or stops at it (an alignment check, a bus error).     *)
(* The array does not move during a call, so this happens at the first     *)
(* permutation of the call or not at all.                                  *)
NextStepPermutes(fr, at) ==
  \/ at = "absorb" /\ (fr.offset < Len(fr.input) \/ fr.block_size = max_block_size)
  \/ at = "pad"

FMisaligned ==
  /\ fpc \in {"absorb", "pad"} /\ NextStepPermutes(frame, fpc)
  /\ frame.absorb_perms + frame.pad_perms = 0
  /\ pc' = "abort"
  /\ fpc' = "none" /\ frame' = NoFrame
  /\ UNCHANGED <<accVars, r, ret, calls, encVars>>

\* ----------------------------------------------------- the public API
Next ==
  \/ Input \/ Chain \/ Result
  \/ LeafCall \/ LeafReturn \/ BuildFinal \/ ResultReturn
  \/ FAbsorb \/ FAbsorbLoop \/ FAbsorbEnd \/ FPad \/ FSqueeze \/ FReturn \/ FMisaligned

Spec == Init /\ [][Next]_vars

\* ----------------------------------------------------- f() on its own
\* f entered directly, on inputs and suffixes result() need not pass.
InitF ==
  /\ acc = "Accumulating" /\ buffer = <<>> /\ appended = <<>>
  /\ pc = "f" /\ r = NoLocals /\ ret = <<>> /\ calls = <<>>
  /\ fpc = "absorb"
  /\ \E len \in FInputLens, suffix \in FSuffixes, output_len \in FOutLens :
       frame = f_enter(Pattern(len, 1), suffix, output_len)
  /\ enc = NoEnc /\ enc_out = <<>>

\* The public API, and f on its own.
SpecAll == (Init \/ InitF) /\ [][Next]_vars

\* ----------------------------------------------------- right_encode() on its own
InitEnc ==
  /\ acc = "Accumulating" /\ buffer = <<>> /\ appended = <<>>
  /\ pc = "enc" /\ r = NoLocals /\ ret = <<>> /\ calls = <<>>
  /\ fpc = "none" /\ frame = NoFrame
  /\ \E x \in EncInputs : enc = enc_enter(x)
  /\ enc_out = <<>>

EncStep ==
  /\ pc = "enc" /\ enc.x > 0
  /\ enc' = enc_step(enc)
  /\ UNCHANGED <<accVars, resVars, fVars, enc_out>>

EncFinish ==
  /\ pc = "enc" /\ ~(enc.x > 0)
  /\ enc_out' = enc_finish(enc)
  /\ pc' = "enc_done"
  /\ UNCHANGED <<accVars, r, ret, calls, fVars, enc>>

NextEnc == EncStep \/ EncFinish

SpecEnc == InitEnc /\ [][NextEnc]_vars

\* ================================================================== claims

(* C1: once result() is running, S = message ++ customization ++           *)
(* right_encode(len(customization)); n >= 1 is the ceiling of len(S)/8192, *)
(* the chunks tile S with every chunk but the last 8192 bytes long; the    *)
(* sequential mode (n = 1) is taken exactly when len(S) <= 8192, and then  *)
(* the only call of f ever made is f(S, 0x07, output_len), whose value     *)
(* result() returns: no call with suffix 0x0B or 0x06.  A longer S never   *)
(* makes a call with suffix 0x07.                                          *)
C1_SequentialMode ==
  pc # "idle" =>
    /\ r.slice = buffer \o r.customization \o right_encode(Len(r.customization))
    /\ r.n >= 1 /\ (r.n - 1) * b < Len(r.slice) /\ Len(r.slice) <= r.n * b
    /\ Len(r.slices) = r.n
    /\ \A k \in 1..r.n :
         /\ r.slices[k][1] = (k - 1) * b
         /\ r.slices[k][2] = (IF k < r.n THEN k * b ELSE Len(r.slice))
    /\ (r.n = 1) <=> (Len(r.slice) <= b)
    /\ Len(r.slice) <= b =>
         /\ calls = << <<7, Len(r.slice), r.output_len>> >>
         /\ fpc # "none" => frame.input = r.slice /\ frame.suffix = 7
         /\ pc = "done" => ret = f(r.slice, 7, r.output_len)
    /\ Len(r.slice) > b => \A k \in 1..Len(calls) : calls[k][1] # 7

\* result() has returned in sequential mode on an S of exactly 8192 bytes.
C1_Witness == pc = "done" /\ Len(r.slice) = b /\ r.n = 1 /\ Len(ret) > 0

\* The bytes S[8192*k .. min(8192*(k+1), len(S))) of the running result().
ChunkOfS(k) == SubSeq(r.slice, b * k + 1, min(b * (k + 1), Len(r.slice)))

\* The chaining values collected so far, byte by byte in collection order.
CVBytes ==
  [j \in 1..(32 * Len(r.intermediate)) |->
     r.intermediate[((j - 1) \div 32) + 1][((j - 1) % 32) + 1]]

(* C2: in tree mode (len(S) > 8192) result() calls f(chunk_i, 0x0B, 32)    *)
(* for i = 1..n-1 in that order, each call on the bytes of its own chunk,  *)
(* and keeps the 32-byte values in chunk order; the final node is the      *)
(* first 8192 bytes of S, the marker 03 00 00 00 00 00 00 00, CV_1 ..      *)
(* CV_{n-1} in chunk order, right_encode(n-1) and FF FF; the last call is  *)
(* f(finalNode, 0x06, output_len) and its value is what result() returns.  *)
C2_TreeMode ==
  (pc # "idle" /\ r.n > 1) =>
    /\ r.slices[1] = <<0, b>>
    /\ r.i <= r.n - 1 /\ Len(r.intermediate) = r.i
    /\ \A k \in 1..Len(r.intermediate) : Len(r.intermediate[k]) = 32
    /\ \A k \in 1..Len(calls) :
         calls[k] = IF k <= r.n - 1
                    THEN <<11, min(b * (k + 1), Len(r.slice)) - b * k, 32>>
                    ELSE <<6, Len(r.node_star), r.output_len>>
    /\ Len(calls) <= r.n
    /\ (pc = "leaf" /\ fpc # "none") =>
         /\ Len(calls) = r.i + 1
         /\ frame.input = ChunkOfS(r.i + 1) /\ frame.suffix = 11
    /\ pc \in {"final", "done"} =>
         /\ r.i = r.n - 1 /\ Len(calls) = r.n
         /\ r.node_star = SubSeq(r.slice, 1, b) \o <<3, 0, 0, 0, 0, 0, 0, 0>> \o CVBytes
                            \o right_encode(r.n - 1) \o <<255, 255>>
         /\ fpc # "none" => frame.input = r.node_star /\ frame.suffix = 6
    /\ pc = "done" =>
         /\ \A k \in 1..(r.n - 1) : r.intermediate[k] = f(ChunkOfS(k), 11, 32)
         /\ ret = f(r.node_star, 6, r.output_len)

\* result() has returned in tree mode with three chunks and two distinct chaining values.
C2_Witness ==
  /\ pc = "done" /\ r.n = 3 /\ Len(r.intermediate) = 2
  /\ r.intermediate[1] # r.intermediate[2]

(* C3: what result(c, len1) returned is the first len1 bytes of            *)
(* result(c, len2) on the same message and customization, for every        *)
(* longer len2, in sequential and in tree mode.                            *)
C3_XofPrefix ==
  pc = "done" =>
    \A len2 \in ApiOutLens :
      r.output_len < len2 =>
        ret = SubSeq(result(buffer, r.customization, len2), 1, r.output_len)

\* result() has returned 32 bytes in tree mode, and a longer output spans several blocks.
C3_Witness ==
  /\ pc = "done" /\ r.n > 1 /\ r.output_len = 32 /\ Len(ret) = 32
  /\ \E len2 \in ApiOutLens : len2 > max_block_size

(* C4: result() returns exactly output_len bytes, in sequential and in     *)
(* tree mode, and every call of f, from result() or on its own with any    *)
(* input and suffix, returns exactly the output_len bytes it was asked     *)
(* for.                                                                    *)
C4_OutputLength ==
  /\ pc = "done" => Len(ret) = r.output_len
  /\ fpc # "none" => Len(frame.output) + frame.output_len = frame.requested
  /\ fpc = "ret" =>
       /\ Len(frame.output) = frame.requested
       /\ pc # "f" => frame.requested = calls[Len(calls)][3]

\* result() has returned, in tree mode, an output longer than one rate block.
C4_Witness ==
  /\ pc = "done" /\ r.n > 1 /\ r.output_len > max_block_size
  /\ Len(ret) = r.output_len

\* ceil(x / y)
CeilDiv(x, y) == (x + y - 1) \div y

(* C5: a call of f asked for 0 bytes returns the empty sequence and leaves *)
(* the state as the padding's final permutation left it; so does result(c, *)
(* 0).  In the squeeze phase a permutation follows an emission only when   *)
(* more output is still to come: after e emissions e permutations have     *)
(* been applied while output is left to produce and e - 1 once it is       *)
(* complete, so L >= 1 bytes cost exactly ceil(L/168) - 1 squeeze-phase    *)
(* permutations.                                                           *)
C5_SqueezePermutations ==
  /\ fpc \in {"squeeze", "ret"} =>
       LET emitted == CeilDiv(Len(frame.output), max_block_size)
       IN  /\ frame.squeeze_perms =
                (IF frame.output_len > 0 \/ emitted = 0 THEN emitted ELSE emitted - 1)
           /\ (frame.output_len > 0 /\ emitted > 0) => Len(frame.output) % max_block_size = 0
  /\ fpc = "ret" =>
       /\ frame.requested >= 1 =>
            frame.squeeze_perms = CeilDiv(frame.requested, max_block_size) - 1
       /\ frame.requested = 0 =>
            /\ frame.output = <<>> /\ frame.squeeze_perms = 0
            /\ frame.state =
                 f_pad(f_absorb_all(f_enter(frame.input, frame.suffix, 0))).state
  /\ (pc = "done" /\ r.output_len = 0) => ret = <<>>

\* The final call of a tree-mode result(c, 0) has returned.
C5_Witness ==
  /\ pc = "final" /\ fpc = "ret" /\ r.output_len = 0
  /\ frame.requested = 0 /\ frame.output = <<>> /\ frame.squeeze_perms = 0

\* The value of a big-endian base-256 digit string.
RECURSIVE BigEndian(_)
BigEndian(ds) ==
  IF ds = <<>> THEN 0 ELSE 256 * BigEndian(SubSeq(ds, 1, Len(ds) - 1)) + ds[Len(ds)]

\* 256^k
RECURSIVE Pow256(_)
Pow256(k) == IF k = 0 THEN 1 ELSE 256 * Pow256(k - 1)

(* C6: right_encode(x) is the big-endian base-256 digits of x without a    *)
(* leading zero byte (none at all for x = 0), followed by one byte holding *)
(* the number of digits; right_encode(0) is the single byte 00; the last   *)
(* byte is the length of the result minus one; distinct arguments have     *)
(* distinct encodings.                                                     *)
C6_RightEncode ==
  /\ pc = "enc" =>
       enc.arg = (IF enc.x = 0 THEN 0 ELSE enc.x * Pow256(Len(enc.slice)))
                   + BigEndian(Reverse(enc.slice))
  /\ pc = "enc_done" =>
       LET digits == SubSeq(enc_out, 1, Len(enc_out) - 1)
       IN  /\ Len(enc_out) >= 1
           /\ \A k \in 1..Len(enc_out) : enc_out[k] \in 0..255
           /\ enc_out[Len(enc_out)] = Len(enc_out) - 1
           /\ BigEndian(digits) = enc.arg
           /\ digits # <<>> => digits[1] # 0
           /\ enc.arg = 0 => enc_out = <<0>>
           /\ enc_out = right_encode(enc.arg)
           /\ \A y \in EncInputs : right_encode(y) = enc_out => y = enc.arg

\* right_encode(65536) has returned 01 00 00 03.
C6_Witness == pc = "enc_done" /\ enc.arg = 65536 /\ enc_out = <<1, 0, 0, 3>>

\* The bytes handed to the calls in a call history, concatenated in call order.
Appended(hist) == Flatten([k \in 1..Len(hist) |-> hist[k][2]])

(* C7: while the accumulator is live its buffer is the concatenation, in   *)
(* call order, of the byte sequences handed to input and chain; a call of  *)
(* either kind appends its bytes and leaves the earlier bytes alone, an    *)
(* empty sequence changes nothing; result() forms S from that              *)
(* concatenation and returns a value fixed by the concatenation, the       *)
(* customization and the requested length.                                 *)
C7_AppendOnly ==
  /\ [](acc = "Accumulating" => buffer = Appended(appended))
  /\ [][ /\ (acc' = "Accumulating" /\ appended' # appended) =>
              LET call == appended'[Len(appended')]
              IN  /\ appended' = Append(appended, call)
                  /\ call[1] \in {"input", "chain"}
                  /\ buffer' = buffer \o call[2]
                  /\ SubSeq(buffer', 1, Len(buffer)) = buffer
                  /\ call[2] = <<>> => buffer' = buffer
         /\ (acc = "Accumulating" /\ acc' = "Finalized") =>
              /\ buffer' = buffer
              /\ r'.slice = Appended(appended) \o r'.customization
                              \o right_encode(Len(r'.customization))
       ]_vars
  /\ [](pc = "done" => ret = result(buffer, r.customization, r.output_len))

\* An input of a chunk-sized piece was followed by a chain of one byte.
C7_Witness ==
  /\ acc = "Accumulating" /\ Len(appended) = 2
  /\ appended[1][1] = "input" /\ Len(appended[1][2]) = b - 1
  /\ appended[2] = <<"chain", <<255>>>>
  /\ Len(buffer) = b /\ buffer[b] = 255

(* C8: a new accumulator is Accumulating and empty; the step to Finalized  *)
(* is the call of result() and nothing else; Finalized is terminal: the    *)
(* buffer never changes again and no input, chain or result is possible,   *)
(* so result() runs at most once per accumulator.                          *)
C8_Lifecycle ==
  /\ acc = "Accumulating" /\ buffer = <<>>
  /\ [](acc \in {"Accumulating", "Finalized"})
  /\ []((acc = "Accumulating") <=> (pc = "idle"))
  /\ [](acc = "Finalized" => ~ENABLED Input /\ ~ENABLED Chain /\ ~ENABLED Result)
  /\ [][ /\ acc = "Finalized" => (acc' = "Finalized" /\ buffer' = buffer /\ appended' = appended)
         /\ (acc = "Accumulating" /\ acc' = "Finalized") =>
              (pc = "idle" /\ pc' \in {"seq", "leaves"} /\ r' # r /\ ret' = <<>>)
         /\ (pc = "idle" /\ pc' # "idle") => acc' = "Finalized"
       ]_vars

\* result() has returned and the accumulator, which held a message, is spent.
C8_Witness == pc = "done" /\ acc = "Finalized" /\ buffer # <<>> /\ Len(ret) > 0

(* C9: f starts from the all-zero state with the first block copied in;    *)
(* every later block is XORed into bytes 0..167 of the permuted state and  *)
(* bytes 168..199 are only ever changed by the permutation; a permutation  *)
(* precedes every block but the first and one more follows a full last     *)
(* block, so when the suffix is XORed exactly floor(len/168) permutations  *)
(* have been applied and the suffix goes to offset len mod 168.            *)
C9_Absorb ==
  /\ [](fpc = "absorb" =>
          /\ frame.offset = min(Len(frame.input), max_block_size * (frame.absorb_perms + 1))
          /\ frame.block_size = frame.offset - max_block_size * frame.absorb_perms
          /\ frame.absorb_perms = 0 =>
               \A k \in 0..(StateLen - 1) :
                 frame.state[k] = (IF k < frame.offset THEN frame.input[k + 1] ELSE 0))
  /\ [](fpc = "pad" =>
          /\ frame.absorb_perms = Len(frame.input) \div max_block_size
          /\ frame.block_size = Len(frame.input) % max_block_size
          /\ frame.offset = Len(frame.input))
  /\ [](fpc \in {"squeeze", "ret"} =>
          /\ frame.absorb_perms = Len(frame.input) \div max_block_size
          /\ frame.pad_at = Len(frame.input) % max_block_size)
  /\ [][ (fpc = "absorb" /\ fpc' = "absorb" /\ frame'.absorb_perms = frame.absorb_perms + 1) =>
           LET st == keccak(frame.state)
           IN  /\ frame'.block_size \in 1..max_block_size
               /\ frame'.offset = frame.offset + frame'.block_size
               /\ \A k \in 0..(StateLen - 1) :
                    frame'.state[k] =
                      (IF k < frame'.block_size
                       THEN BitXor(st[k], frame.input[frame.offset + k + 1])
                       ELSE st[k])
               /\ \A k \in max_block_size..(StateLen - 1) : frame'.state[k] = st[k]
       ]_vars
  /\ [][ (fpc = "absorb" /\ fpc' = "pad") =>
           /\ frame'.absorb_perms - frame.absorb_perms =
                (IF Len(frame.input) > 0 /\ Len(frame.input) % max_block_size = 0 THEN 1 ELSE 0)
           /\ frame'.state =
                (IF frame'.absorb_perms = frame.absorb_perms THEN frame.state
                 ELSE keccak(frame.state))
       ]_vars

\* An input of two full blocks has been absorbed: two permutations, suffix due at offset 0.
C9_Witness ==
  /\ fpc = "pad" /\ Len(frame.input) = 2 * max_block_size
  /\ frame.absorb_perms = 2 /\ frame.block_size = 0

\* XOR of a byte vector into a state at one offset.
XorAt(state, k, byte) == [state EXCEPT ![k] = BitXor(@, byte)]

(* C10: the padding XORs the suffix at the residual offset, applies one    *)
(* extra permutation exactly when the suffix has bit 0x80 set and the      *)
(* offset is 167, XORs 0x80 into byte 167 and applies one final            *)
(* permutation, all before any output is emitted.  result() only passes    *)
(* the suffixes 0x07, 0x0B and 0x06, so the padding of every call it makes *)
(* applies exactly one permutation, and at offset 167 the suffix and 0x80  *)
(* go into the same byte.                                                  *)
C10_Padding ==
  /\ [](fpc \in {"absorb", "pad"} => (frame.output = <<>> /\ frame.pad_perms = 0))
  /\ [](fpc \in {"squeeze", "ret"} =>
          /\ frame.pad_at \in 0..(max_block_size - 1)
          /\ frame.pad_perms =
               (IF frame.suffix >= 128 /\ frame.pad_at = max_block_size - 1 THEN 2 ELSE 1))
  /\ []((pc # "f" /\ fpc # "none") => frame.suffix \in {7, 11, 6})
  /\ [](\A k \in 1..Len(calls) : calls[k][1] \in {7, 11, 6})
  /\ []((pc # "f" /\ fpc \in {"squeeze", "ret"}) => frame.pad_perms = 1)
  /\ [][ (fpc = "pad" /\ fpc' = "squeeze") =>
           LET at == frame.block_size
               s1 == XorAt(frame.state, at, frame.suffix)
           IN  /\ frame'.pad_at = at /\ frame'.output = <<>>
               /\ frame'.state =
                    (IF frame.suffix >= 128 /\ at = max_block_size - 1
                     THEN keccak(XorAt(keccak(s1), max_block_size - 1, 128))
                     ELSE keccak(XorAt(s1, max_block_size - 1, 128)))
               /\ (frame.suffix < 128 /\ at = max_block_size - 1) =>
                    frame'.state =
                      keccak(XorAt(frame.state, max_block_size - 1, frame.suffix + 128))
       ]_vars

\* A sequential result() on an S of 167 bytes has padded: suffix 0x07 and 0x80 share byte 167.
C10_Witness ==
  /\ pc = "seq" /\ fpc = "squeeze" /\ Len(r.slice) = max_block_size - 1
  /\ frame.suffix = 7 /\ frame.pad_at = max_block_size - 1 /\ frame.pad_perms = 1
====
